---- MODULE Spec2Model ----
(***************************************************************************)
(* A model of qan.py: the driver main() (start-up, resume, the epoch loop  *)
(* with its learning-rate schedule, periodic evaluation, best-so-far       *)
(* tracking and checkpointing) and the quality-aware pooling computed in   *)
(* train() and test().                                                     *)
(*                                                                         *)
(* Opaque collaborators are abstracted as follows.                         *)
(*  - The model parameters are the sequence of epoch indices that have     *)
(*    been trained into them (<<>> for the freshly built network), so a    *)
(*    repeated or a skipped epoch is visible in the parameters.            *)
(*  - A learning rate is a record [coef, exp] standing for                 *)
(*    coef * args.lr * args.gamma^exp.                                     *)
(*  - test() returns a rank-1 value drawn from 0..MaxRank.                 *)
(*  - exp(q) in the softmax is modelled by 2^q (strictly positive and      *)
(*    strictly increasing); all pooling arithmetic is exact rational       *)
(*    arithmetic on <<numerator, denominator>> pairs.                      *)
(***************************************************************************)
EXTENDS Integers, Sequences, FiniteSets, TLC

\* ----- bounds of the model
MaxEpoch == 3
MaxStartEpoch == 2
MaxEvalStep == 2
MaxStepsize == 2
MaxRank == 2
MaxRuns == 2
MaxBatch == 2
MaxFrames == 4
MaxFeat == 1
MaxScore == 1

\* ----- program constants
\* best_rank1 = -np.inf: below every rank-1 value (rank-1 values are >= 0)
NegInf == -1
\* --resume default '': no checkpoint path given
NoPath == 0

Optims == {"adam", "sgd", "rmsprop", "adagrad"}
Pools == {"avg", "max", "qan"}
Ranks == 0..MaxRank
Groups == {"base_model", "feature_model", "quality_model"}

VARIABLES
  args,            \* the parsed command line
  cuda_available,  \* torch.cuda.is_available()
  pc,              \* position in main()
  use_gpu,
  built,           \* the objects constructed so far
  params,          \* the model's parameters (state_dict)
  optimizer,
  scheduler,
  start_epoch,
  checkpoint,      \* the checkpoint read by torch.load
  epoch,           \* the loop variable of the epoch loop
  best_rank1,
  best_epoch,
  rank1,
  is_best,
  disk,            \* the checkpoint files in save_dir
  trained,         \* one record per call of train() in this run
  evals,           \* one record per call of test() in this run
  saved,           \* one record per call of save_checkpoint() in this run
  reported,        \* what the final "Best Rank-1" line prints
  runs,            \* number of program runs started
  batch,           \* pooling: one batch and the network's outputs for it
  pooled           \* pooling: the last pooled result

mainvars == <<args, cuda_available, pc, use_gpu, built, params, optimizer,
              scheduler, start_epoch, checkpoint, epoch, best_rank1,
              best_epoch, rank1, is_best, disk, trained, evals, saved,
              reported, runs>>
poolvars == <<batch, pooled>>
vars == <<mainvars, poolvars>>

\* ======================================================================
\* Helpers translated from main()
\* ======================================================================

\* use_gpu = torch.cuda.is_available(); if args.use_cpu: use_gpu = False
\* (variant that forgets --use-cpu: C9 must tell it from the code)
UseGpuRequiresCuda(cuda, use_cpu) == cuda
UseGpu(cuda, use_cpu) == IF use_cpu THEN FALSE ELSE cuda

Device(gpu) == IF gpu THEN "cuda" ELSE "cpu"

\* the learning rate handed to init_optim: args.lr itself
InitialLr == [coef |-> 1, exp |-> 0]

\* param_groups: the three groups with their declared 'lr_mult'
LrMult(g) == IF g = "base_model" THEN 1 ELSE 10
param_groups == [g \in Groups |-> [lr_mult |-> LrMult(g)]]

\* init_optim: the torch optimizers give every group that has no 'lr' key
\* the default lr; a key they do not know ('lr_mult') is kept and not read.
init_optim(optim, groups, lr) ==
  IF optim \in {"adam", "sgd", "rmsprop"}
  THEN [raised |-> FALSE,
        optimizer |-> [kind |-> optim,
                       param_groups |-> [g \in DOMAIN groups |->
                           [lr_mult |-> groups[g].lr_mult, lr |-> lr]]]]
  ELSE [raised |-> TRUE,
        optimizer |-> [kind |-> optim,
                       param_groups |-> [g \in DOMAIN groups |->
                           [lr_mult |-> groups[g].lr_mult, lr |-> lr]]]]

NoOptimizer == init_optim("adam", param_groups, InitialLr).optimizer

\* lr_scheduler.StepLR(optimizer, step_size, gamma): starts at last_epoch 0
\* with the groups' current rates as base rates
StepLR(opt, step_size) ==
  [created |-> TRUE, step_size |-> step_size, last_epoch |-> 0,
   base_lrs |-> [g \in DOMAIN opt.param_groups |-> opt.param_groups[g].lr]]

NoScheduler ==
  [created |-> FALSE, step_size |-> 0, last_epoch |-> 0,
   base_lrs |-> [g \in Groups |-> InitialLr]]

\* scheduler.step(): lr = base_lr * gamma ** (last_epoch // step_size)
SchedulerStepped(s) == [s EXCEPT !.last_epoch = s.last_epoch + 1]
SchedulerLrs(s) ==
  [g \in DOMAIN s.base_lrs |->
     [coef |-> s.base_lrs[g].coef,
      exp |-> s.base_lrs[g].exp + (s.last_epoch \div s.step_size)]]

\* the condition of the evaluation branch of the epoch loop
\* (variant with 'and' applied to the whole 'or': C2 must tell it from the code)
EvalDueWrongPrecedence(e) ==
  args.eval_step > 0
    /\ ((e + 1) % args.eval_step = 0 \/ (e + 1) = args.max_epoch)
EvalDue(e) ==
  (args.eval_step > 0 /\ (e + 1) % args.eval_step = 0)
    \/ (e + 1) = args.max_epoch

\* is_best = rank1 > best_rank1
\* (variant that also flags a tie: C3 must tell it from the code)
IsBestOrEqual(r, best) == r >= best
IsBest(r, best) == r > best

\* the dictionary handed to save_checkpoint
\* (variant that stores best_rank1: C6 must tell it from the code)
CheckpointStateBest(state_dict, r, best, e) ==
  [state_dict |-> state_dict, rank1 |-> best, epoch |-> e]
CheckpointState(state_dict, r, best, e) ==
  [state_dict |-> state_dict, rank1 |-> r, epoch |-> e]

NoCheckpoint == CheckpointState(<<>>, NegInf, NegInf, 0)

\* the file name: 'checkpoint_ep' + str(epoch+1) + '.pth.tar'
CheckpointPath(e) == e + 1

\* save_checkpoint(state, is_best, fpath): writes the file and keeps a copy
\* of it as the best model when is_best
save_checkpoint(d, state, best, fpath) ==
  [files |-> [f \in DOMAIN d.files \cup {fpath} |->
                IF f = fpath THEN state ELSE d.files[f]],
   best_model |-> IF best THEN <<state>> ELSE d.best_model]

EmptyDisk == [files |-> <<>>, best_model |-> <<>>]

\* the pooling used by train(): always the quality-aware one
TrainPoolMode == "qan"

\* the pooling branch of test(), query loop and gallery loop
\* (variant without the 'qan' branch: C5 must tell it from the code)
PoolModeAvgElseMax(pool) == IF pool = "avg" THEN "avg" ELSE "max"
QueryPoolMode(pool) ==
  IF pool = "avg" THEN "avg" ELSE IF pool = "qan" THEN "qan" ELSE "max"
GalleryPoolMode(pool) ==
  IF pool = "avg" THEN "avg" ELSE IF pool = "qan" THEN "qan" ELSE "max"

\* ======================================================================
\* Configurations
\* ======================================================================

ArgsSet ==
  [optim : Optims, use_cpu : BOOLEAN, pool : Pools, evaluate : BOOLEAN,
   max_epoch : 0..MaxEpoch, start_epoch : 0..MaxStartEpoch,
   eval_step : (-1)..MaxEvalStep, stepsize : 0..MaxStepsize,
   resume : {NoPath}]

\* the configurations of the runs that are chained by --resume
ResumeArgsSet ==
  [optim : {"adam"}, use_cpu : {TRUE}, pool : {"qan"}, evaluate : BOOLEAN,
   max_epoch : 0..MaxEpoch, start_epoch : {0},
   eval_step : {-1, 1}, stepsize : {0, 1},
   resume : {NoPath}]

NoBatch == [b |-> 0, seq_len |-> 0, features |-> <<>>, scores |-> <<>>]
NoPooled == [site |-> "none", pool |-> "none", weights |-> <<>>,
             normaliser |-> <<>>, features |-> <<>>]

PoolIdle == batch = NoBatch /\ pooled = NoPooled

\* the state of a process that has just parsed its arguments
ProcessStart ==
  /\ pc = "start"
  /\ use_gpu = FALSE
  /\ built = {}
  /\ params = <<>>
  /\ optimizer = NoOptimizer
  /\ scheduler = NoScheduler
  /\ start_epoch = 0
  /\ checkpoint = NoCheckpoint
  /\ epoch = 0
  /\ best_rank1 = NegInf
  /\ best_epoch = 0
  /\ rank1 = NegInf
  /\ is_best = FALSE
  /\ trained = <<>>
  /\ evals = <<>>
  /\ saved = <<>>
  /\ reported = <<>>

Init ==
  /\ args \in ArgsSet
  /\ cuda_available \in BOOLEAN
  /\ ProcessStart
  /\ disk = EmptyDisk
  /\ runs = 1
  /\ PoolIdle

InitResume ==
  /\ args \in ResumeArgsSet
  /\ cuda_available \in BOOLEAN
  /\ ProcessStart
  /\ disk = EmptyDisk
  /\ runs = 1
  /\ PoolIdle

\* ======================================================================
\* main(): one action per step
\* ======================================================================

\* seed, CUDA_VISIBLE_DEVICES, use_gpu, the logger and the device notice
SelectDevice ==
  /\ pc = "start"
  /\ use_gpu' = UseGpu(cuda_available, args.use_cpu)
  /\ pc' = "dataset"
  /\ UNCHANGED <<args, cuda_available, built, params, optimizer, scheduler,
                 start_epoch, checkpoint, epoch, best_rank1, best_epoch,
                 rank1, is_best, disk, trained, evals, saved, reported, runs>>
  /\ UNCHANGED poolvars

\* dataset = data_manager.init_dataset(...)
InitDataset ==
  /\ pc = "dataset"
  /\ built' = built \cup {"dataset"}
  /\ pc' = "loaders"
  /\ UNCHANGED <<args, cuda_available, use_gpu, params, optimizer, scheduler,
                 start_epoch, checkpoint, epoch, best_rank1, best_epoch,
                 rank1, is_best, disk, trained, evals, saved, reported, runs>>
  /\ UNCHANGED poolvars

\* the transforms and the three DataLoaders
BuildLoaders ==
  /\ pc = "loaders"
  /\ built' = built \cup {"trainloader", "queryloader", "galleryloader"}
  /\ pc' = "model"
  /\ UNCHANGED <<args, cuda_available, use_gpu, params, optimizer, scheduler,
                 start_epoch, checkpoint, epoch, best_rank1, best_epoch,
                 rank1, is_best, disk, trained, evals, saved, reported, runs>>
  /\ UNCHANGED poolvars

\* model = qualitynet_res50(...) and the two criteria
BuildModel ==
  /\ pc = "model"
  /\ built' = built \cup {"model", "criterion"}
  /\ params' = <<>>
  /\ pc' = "optim"
  /\ UNCHANGED <<args, cuda_available, use_gpu, optimizer, scheduler,
                 start_epoch, checkpoint, epoch, best_rank1, best_epoch,
                 rank1, is_best, disk, trained, evals, saved, reported, runs>>
  /\ UNCHANGED poolvars

\* param_groups, init_optim (which may raise KeyError), StepLR, start_epoch
InitOptim ==
  /\ pc = "optim"
  /\ LET r == init_optim(args.optim, param_groups, InitialLr) IN
       IF r.raised
       THEN /\ pc' = "KeyError"
            /\ UNCHANGED <<optimizer, scheduler, start_epoch, built>>
       ELSE /\ optimizer' = r.optimizer
            /\ scheduler' = IF args.stepsize > 0
                            THEN StepLR(r.optimizer, args.stepsize)
                            ELSE scheduler
            /\ start_epoch' = args.start_epoch
            /\ built' = built \cup {"optimizer"}
            /\ pc' = "resume"
  /\ UNCHANGED <<args, cuda_available, use_gpu, params, checkpoint, epoch,
                 best_rank1, best_epoch, rank1, is_best, disk, trained,
                 evals, saved, reported, runs>>
  /\ UNCHANGED poolvars

\* if args.resume: load the checkpoint; then the DataParallel wrapping and
\* the choice between evaluation only and training
Resume ==
  /\ pc = "resume"
  /\ IF args.resume # NoPath
     THEN /\ checkpoint' = disk.files[args.resume]
          /\ params' = disk.files[args.resume].state_dict
          /\ start_epoch' = disk.files[args.resume].epoch
          /\ built' = built \cup {"checkpoint"}
     ELSE UNCHANGED <<checkpoint, params, start_epoch, built>>
  /\ pc' = IF args.evaluate THEN "evaluate" ELSE "training"
  /\ UNCHANGED <<args, cuda_available, use_gpu, optimizer, scheduler, epoch,
                 best_rank1, best_epoch, rank1, is_best, disk, trained,
                 evals, saved, reported, runs>>
  /\ UNCHANGED poolvars

\* the record of one call test(model, queryloader, galleryloader, pool, ...)
TestRecord(mode, e, r, best, pool) ==
  [mode |-> mode, epoch |-> e, rank1 |-> r, is_best |-> best,
   query_pool |-> QueryPoolMode(pool), gallery_pool |-> GalleryPoolMode(pool),
   device |-> Device(use_gpu), ntrained |-> Len(trained),
   nsched |-> scheduler.last_epoch]

\* if args.evaluate: test(...); return
EvaluateOnly ==
  /\ pc = "evaluate"
  /\ \E r \in Ranks :
       evals' = Append(evals,
                       TestRecord("evaluate", start_epoch, r, FALSE, args.pool))
  /\ pc' = "done"
  /\ UNCHANGED <<args, cuda_available, use_gpu, built, params, optimizer,
                 scheduler, start_epoch, checkpoint, epoch, best_rank1,
                 best_epoch, rank1, is_best, disk, trained, saved, reported,
                 runs>>
  /\ UNCHANGED poolvars

\* best_rank1 = -np.inf; best_epoch = 0; the loop starts at start_epoch
StartTraining ==
  /\ pc = "training"
  /\ best_rank1' = NegInf
  /\ best_epoch' = 0
  /\ epoch' = start_epoch
  /\ pc' = "loop"
  /\ UNCHANGED <<args, cuda_available, use_gpu, built, params, optimizer,
                 scheduler, start_epoch, checkpoint, rank1, is_best, disk,
                 trained, evals, saved, reported, runs>>
  /\ UNCHANGED poolvars

\* for epoch in range(start_epoch, args.max_epoch)
LoopHead ==
  /\ pc = "loop"
  /\ pc' = IF epoch < args.max_epoch THEN "train" ELSE "report"
  /\ UNCHANGED <<args, cuda_available, use_gpu, built, params, optimizer,
                 scheduler, start_epoch, checkpoint, epoch, best_rank1,
                 best_epoch, rank1, is_best, disk, trained, evals, saved,
                 reported, runs>>
  /\ UNCHANGED poolvars

\* train(epoch, ...): every optimizer step of the epoch uses the groups'
\* current rates and the pooling of train()
Train ==
  /\ pc = "train"
  /\ params' = Append(params, epoch)
  /\ trained' = Append(trained,
        [epoch |-> epoch,
         lr |-> [g \in Groups |-> optimizer.param_groups[g].lr],
         kind |-> optimizer.kind,
         pool |-> TrainPoolMode,
         device |-> Device(use_gpu)])
  /\ pc' = "sched"
  /\ UNCHANGED <<args, cuda_available, use_gpu, built, optimizer, scheduler,
                 start_epoch, checkpoint, epoch, best_rank1, best_epoch,
                 rank1, is_best, disk, evals, saved, reported, runs>>
  /\ UNCHANGED poolvars

\* if args.stepsize > 0: scheduler.step()
SchedulerStep ==
  /\ pc = "sched"
  /\ IF args.stepsize > 0
     THEN LET s == SchedulerStepped(scheduler) IN
            /\ scheduler' = s
            /\ optimizer' = [optimizer EXCEPT !.param_groups =
                 [g \in Groups |->
                    [optimizer.param_groups[g] EXCEPT !.lr = SchedulerLrs(s)[g]]]]
     ELSE UNCHANGED <<scheduler, optimizer>>
  /\ pc' = "evalcheck"
  /\ UNCHANGED <<args, cuda_available, use_gpu, built, params, start_epoch,
                 checkpoint, epoch, best_rank1, best_epoch, rank1, is_best,
                 disk, trained, evals, saved, reported, runs>>
  /\ UNCHANGED poolvars

\* if args.eval_step > 0 and (epoch+1) % args.eval_step == 0
\*    or (epoch+1) == args.max_epoch
EvalCheck ==
  /\ pc = "evalcheck"
  /\ IF EvalDue(epoch)
     THEN pc' = "test" /\ UNCHANGED epoch
     ELSE pc' = "loop" /\ epoch' = epoch + 1
  /\ UNCHANGED <<args, cuda_available, use_gpu, built, params, optimizer,
                 scheduler, start_epoch, checkpoint, best_rank1, best_epoch,
                 rank1, is_best, disk, trained, evals, saved, reported, runs>>
  /\ UNCHANGED poolvars

\* rank1 = test(...); is_best = rank1 > best_rank1; the best-so-far update
Test ==
  /\ pc = "test"
  /\ \E r \in Ranks :
       LET best == IsBest(r, best_rank1) IN
         /\ rank1' = r
         /\ is_best' = best
         /\ best_rank1' = IF best THEN r ELSE best_rank1
         /\ best_epoch' = IF best THEN epoch + 1 ELSE best_epoch
         /\ evals' = Append(evals, TestRecord("train", epoch, r, best, args.pool))
  /\ pc' = "save"
  /\ UNCHANGED <<args, cuda_available, use_gpu, built, params, optimizer,
                 scheduler, start_epoch, checkpoint, epoch, disk, trained,
                 saved, reported, runs>>
  /\ UNCHANGED poolvars

\* state_dict of the (possibly DataParallel-wrapped) model; save_checkpoint
SaveCheckpoint ==
  /\ pc = "save"
  /\ LET \* model.module.state_dict() or model.state_dict(): the same parameters
         state_dict == IF use_gpu THEN params ELSE params
         state == CheckpointState(state_dict, rank1, best_rank1, epoch) IN
       /\ saved' = Append(saved, [state |-> state, is_best |-> is_best,
                                  fpath |-> CheckpointPath(epoch)])
       /\ disk' = save_checkpoint(disk, state, is_best, CheckpointPath(epoch))
  /\ epoch' = epoch + 1
  /\ pc' = "loop"
  /\ UNCHANGED <<args, cuda_available, use_gpu, built, params, optimizer,
                 scheduler, start_epoch, checkpoint, best_rank1, best_epoch,
                 rank1, is_best, trained, evals, reported, runs>>
  /\ UNCHANGED poolvars

\* print("==> Best Rank-1 {:.1%}, achieved at epoch {}") and the timings
Report ==
  /\ pc = "report"
  /\ reported' = <<[best_rank1 |-> best_rank1, best_epoch |-> best_epoch]>>
  /\ pc' = "done"
  /\ UNCHANGED <<args, cuda_available, use_gpu, built, params, optimizer,
                 scheduler, start_epoch, checkpoint, epoch, best_rank1,
                 best_epoch, rank1, is_best, disk, trained, evals, saved,
                 runs>>
  /\ UNCHANGED poolvars

\* the program is started again with --resume naming a file of save_dir
Relaunch ==
  /\ pc = "done"
  /\ runs < MaxRuns
  /\ \E path \in DOMAIN disk.files : \E a \in ResumeArgsSet :
       args' = [a EXCEPT !.resume = path]
  /\ runs' = runs + 1
  /\ pc' = "start"
  /\ use_gpu' = FALSE
  /\ built' = {}
  /\ params' = <<>>
  /\ optimizer' = NoOptimizer
  /\ scheduler' = NoScheduler
  /\ start_epoch' = 0
  /\ checkpoint' = NoCheckpoint
  /\ epoch' = 0
  /\ best_rank1' = NegInf
  /\ best_epoch' = 0
  /\ rank1' = NegInf
  /\ is_best' = FALSE
  /\ trained' = <<>>
  /\ evals' = <<>>
  /\ saved' = <<>>
  /\ reported' = <<>>
  /\ UNCHANGED <<cuda_available, disk>>
  /\ UNCHANGED poolvars

Next ==
  \/ SelectDevice
  \/ InitDataset
  \/ BuildLoaders
  \/ BuildModel
  \/ InitOptim
  \/ Resume
  \/ EvaluateOnly
  \/ StartTraining
  \/ LoopHead
  \/ Train
  \/ SchedulerStep
  \/ EvalCheck
  \/ Test
  \/ SaveCheckpoint
  \/ Report

NextResume == Next \/ Relaunch

Spec == Init /\ [][Next]_vars

SpecResume == InitResume /\ [][NextResume]_vars

\* ======================================================================
\* Pooling in train() and test()
\* ======================================================================

\* exact rationals <<numerator, denominator>> in lowest terms, numerators
\* non-negative and denominators positive
RECURSIVE Gcd(_, _)
Gcd(m, n) == IF n = 0 THEN m ELSE Gcd(n, m % n)
Lowest(x) == LET g == Gcd(x[1], x[2]) IN <<x[1] \div g, x[2] \div g>>
FAdd(x, y) == Lowest(<<x[1] * y[2] + y[1] * x[2], x[2] * y[2]>>)
FMul(x, y) == Lowest(<<x[1] * y[1], x[2] * y[2]>>)
FDiv(x, y) == Lowest(<<x[1] * y[2], x[2] * y[1]>>)
FEq(x, y) == x[1] * y[2] = y[1] * x[2]
FLe(x, y) == x[1] * y[2] <= y[1] * x[2]

RECURSIVE FSum(_)
FSum(xs) == IF xs = <<>> THEN <<0, 1>> ELSE FAdd(Head(xs), FSum(Tail(xs)))

RECURSIVE ISum(_)
ISum(xs) == IF xs = <<>> THEN 0 ELSE Head(xs) + ISum(Tail(xs))

RECURSIVE IMax(_)
IMax(xs) ==
  IF Len(xs) = 1 THEN Head(xs)
  ELSE LET m == IMax(Tail(xs)) IN IF Head(xs) > m THEN Head(xs) ELSE m

\* the exponential of the softmax
Exp(q) == 2 ^ q

\* x.view(-1, cols) of a flat tensor: row r holds x[(r-1)*cols+1 .. r*cols]
View(x, cols) ==
  [r \in 1..(Len(x) \div cols) |-> [c \in 1..cols |-> x[(r - 1) * cols + c]]]

\* m.view(-1, 1) of a tensor with cols columns, as a flat sequence
Flat(m, cols) ==
  [i \in 1..(Len(m) * cols) |-> m[((i - 1) \div cols) + 1][((i - 1) % cols) + 1]]

\* F.softmax(m, dim=1): each row is normalised over its own entries
\* (variant normalising over dim=0, across tracklets: C4 must tell it apart)
SoftmaxDim0(m) ==
  [r \in DOMAIN m |-> [c \in DOMAIN m[r] |->
     <<Exp(m[r][c]), ISum([q \in DOMAIN m |-> Exp(m[q][c])])>>]]
SoftmaxDim1(m) ==
  [r \in DOMAIN m |-> [c \in DOMAIN m[r] |->
     <<Exp(m[r][c]), ISum([k \in DOMAIN m[r] |-> Exp(m[r][k])])>>]]

\* scores = scores.view(-1, args.seq_len); scores = F.softmax(scores, dim=1)
\* scores = scores.view(-1, 1)
NormalisedScores(scores, seq_len) ==
  Flat(SoftmaxDim1(View(scores, seq_len)), seq_len)

\* features.view(b, s, -1); scores.view(b, s, -1).expand(...);
\* features = (features * scores).sum(1); scores = scores.sum(1);
\* features = features / scores
QanPool(features, weights, b, s) ==
  LET f3 == View(features, s)
      w3 == View(weights, s)
      summed == [t \in 1..b |-> FSum([k \in 1..s |-> FMul(<<f3[t][k], 1>>, w3[t][k])])]
      norm == [t \in 1..b |-> FSum(w3[t])]
  IN [normaliser |-> norm,
      features |-> [t \in 1..b |-> FDiv(summed[t], norm[t])]]

\* torch.mean(features, 1)
AvgPool(features, b, s) ==
  LET f3 == View(features, s) IN [t \in 1..b |-> <<ISum(f3[t]), s>>]

\* torch.max(features, 1)
MaxPool(features, b, s) ==
  LET f3 == View(features, s) IN [t \in 1..b |-> <<IMax(f3[t]), 1>>]

\* the pooling of one training step: batch_size tracklets of args.seq_len
PooledTrain(x) ==
  LET w == NormalisedScores(x.scores, x.seq_len)
      q == QanPool(x.features, w, x.b, x.seq_len)
  IN [site |-> "train", pool |-> TrainPoolMode, weights |-> w,
      normaliser |-> q.normaliser, features |-> q.features]

\* the pooling of one batch of test(); b, s = imgs.size() with s the
\* seq_len the loaders were built with
PooledTest(site, mode, x) ==
  LET b == x.b
      s == x.seq_len
      w == NormalisedScores(x.scores, x.seq_len)
      q == QanPool(x.features, w, b, s)
  IN IF mode = "avg"
     THEN [site |-> site, pool |-> mode, weights |-> w, normaliser |-> <<>>,
           features |-> AvgPool(x.features, b, s)]
     ELSE IF mode = "qan"
     THEN [site |-> site, pool |-> mode, weights |-> w,
           normaliser |-> q.normaliser, features |-> q.features]
     ELSE [site |-> site, pool |-> mode, weights |-> w, normaliser |-> <<>>,
           features |-> MaxPool(x.features, b, s)]

\* shapes [B, S] of a batch and the network's outputs for its B*S frames
Shapes ==
  {sh \in (1..MaxBatch) \X (1..MaxFrames) : sh[1] * sh[2] <= MaxFrames}

Batches ==
  UNION {[b : {sh[1]}, seq_len : {sh[2]},
          features : [1..(sh[1] * sh[2]) -> 0..MaxFeat],
          scores : [1..(sh[1] * sh[2]) -> 0..MaxScore]] : sh \in Shapes}

\* the argparse defaults (--pool qan in particular), the numbers scaled to
\* the bounds
DefaultArgs ==
  [optim |-> "adam", use_cpu |-> FALSE, pool |-> "qan", evaluate |-> FALSE,
   max_epoch |-> MaxEpoch, start_epoch |-> 0, eval_step |-> MaxEvalStep,
   stepsize |-> MaxStepsize, resume |-> NoPath]

InitPool ==
  /\ args = DefaultArgs
  /\ cuda_available = FALSE
  /\ ProcessStart
  /\ disk = EmptyDisk
  /\ runs = 1
  /\ batch \in Batches
  /\ pooled = NoPooled

\* train(): the pooled descriptor of one batch
TrainPooling ==
  /\ batch # NoBatch
  /\ pooled = NoPooled
  /\ pooled' = PooledTrain(batch)
  /\ UNCHANGED <<batch, mainvars>>

\* test(): the pooled descriptors of one query batch
QueryPooling ==
  /\ batch # NoBatch
  /\ pooled = NoPooled
  /\ pooled' = PooledTest("query", QueryPoolMode(args.pool), batch)
  /\ UNCHANGED <<batch, mainvars>>

\* test(): the pooled descriptors of one gallery batch
GalleryPooling ==
  /\ batch # NoBatch
  /\ pooled = NoPooled
  /\ pooled' = PooledTest("gallery", GalleryPoolMode(args.pool), batch)
  /\ UNCHANGED <<batch, mainvars>>

NextPool == TrainPooling \/ QueryPooling \/ GalleryPooling

SpecPool == InitPool /\ [][NextPool]_vars

\* ======================================================================
\* Properties
\* ======================================================================

\* the positions of main() from the start of training on
LoopPcs == {"loop", "train", "sched", "evalcheck", "test", "save", "report", "done"}

EvalEpochs == {evals[i].epoch : i \in DOMAIN evals}
SavedEpochs == {saved[i].state.epoch : i \in DOMAIN saved}
RanksUpTo(i) == {evals[j].rank1 : j \in 1..i}
MaxOf(S) == CHOOSE m \in S : \A x \in S : x <= m
MinOf(S) == CHOOSE m \in S : \A x \in S : m <= x
FirstWithRank(r) == MinOf({i \in DOMAIN evals : evals[i].rank1 = r})
Countup(n) == [i \in 1..n |-> i - 1]

\* C1 (as claimed): a run resumed from the checkpoint written after the k-th
\* epoch of a training from scratch, with max-epoch = k+1, trains exactly one
\* more epoch: the parameters have then been trained on the epochs
\* 0, 1, ..., k once each, none repeated and none skipped.
C1_ResumeTrainsOneMoreEpoch ==
  (/\ pc = "done"
   /\ ~args.evaluate
   /\ "checkpoint" \in built
   /\ checkpoint.state_dict # <<>>
   /\ checkpoint.state_dict = Countup(Len(checkpoint.state_dict))
   /\ args.max_epoch = Len(checkpoint.state_dict) + 1)
  => params = Countup(Len(checkpoint.state_dict) + 1)

\* the condition of C2, as the claim words it
DueByClaim(e) ==
  IF args.eval_step > 0
  THEN (e + 1) % args.eval_step = 0 \/ e + 1 = args.max_epoch
  ELSE e + 1 = args.max_epoch

\* C2: in training mode every epoch e of [start_epoch, max_epoch) is
\* evaluated, after its training and after the scheduler step, if and only if
\* (eval_step > 0 and (e+1) mod eval_step = 0) or e+1 = max_epoch; the final
\* epoch is always evaluated once an epoch was trained, with eval_step <= 0
\* only the final epoch is, and a checkpoint is written at exactly the
\* evaluated epochs.
C2_EvaluationSchedule ==
  (~args.evaluate /\ pc \in LoopPcs) =>
    /\ \A e \in start_epoch..(epoch - 1) :
         /\ e \in EvalEpochs <=> DueByClaim(e)
         /\ e \in SavedEpochs <=> e \in EvalEpochs
    /\ EvalEpochs \subseteq start_epoch..epoch
    /\ SavedEpochs \subseteq start_epoch..(epoch - 1)
    /\ epoch \in EvalEpochs => (pc = "save" /\ DueByClaim(epoch))
    /\ Cardinality(EvalEpochs) = Len(evals)
    /\ Cardinality(SavedEpochs) = Len(saved)
    /\ \A i \in DOMAIN evals :
         /\ evals[i].ntrained = evals[i].epoch - start_epoch + 1
         /\ args.stepsize > 0 => evals[i].nsched = evals[i].epoch - start_epoch + 1
    /\ (pc = "done" /\ trained # <<>>) => (args.max_epoch - 1) \in SavedEpochs
    /\ args.eval_step <= 0 => EvalEpochs \subseteq {args.max_epoch - 1}

C2_Witness ==
  /\ pc = "done"
  /\ ~args.evaluate
  /\ args.eval_step = 2
  /\ Len(trained) = 3
  /\ EvalEpochs = {1, 2}
  /\ SavedEpochs = {1, 2}

\* C3: at each evaluation of a run the checkpoint is flagged best iff its
\* rank-1 is strictly greater than every earlier rank-1 of the run (so the
\* first always is); after every evaluation best_rank1 is the maximum rank-1
\* so far and best_epoch the 1-based number of the earliest epoch attaining
\* it, and these are the values reported at termination.
C3_BestSoFar ==
  (~args.evaluate /\ evals # <<>>) =>
    LET m == MaxOf(RanksUpTo(Len(evals))) IN
      /\ \A i \in DOMAIN evals :
           evals[i].is_best <=> (\A j \in 1..(i - 1) : evals[i].rank1 > evals[j].rank1)
      /\ \A i \in DOMAIN saved : saved[i].is_best = evals[i].is_best
      /\ evals[1].is_best
      /\ best_rank1 = m
      /\ best_epoch = evals[FirstWithRank(m)].epoch + 1
      /\ pc = "save" => is_best = evals[Len(evals)].is_best
      /\ pc = "done" => reported = <<[best_rank1 |-> m,
                                      best_epoch |-> evals[FirstWithRank(m)].epoch + 1]>>

C3_Witness ==
  /\ pc = "done"
  /\ Len(evals) = 3
  /\ evals[1].rank1 < evals[2].rank1
  /\ evals[3].rank1 = evals[2].rank1
  /\ ~saved[3].is_best
  /\ reported = <<[best_rank1 |-> evals[2].rank1, best_epoch |-> evals[2].epoch + 1]>>

\* C5 (as claimed): the pooling mode chosen by --pool is the mode of every
\* pooled descriptor: in each training step and, in evaluation, for the
\* query set and for the gallery set.
C5_ConfiguredPoolEverywhere ==
  /\ \A i \in DOMAIN trained : trained[i].pool = args.pool
  /\ \A i \in DOMAIN evals :
       evals[i].query_pool = args.pool /\ evals[i].gallery_pool = args.pool

\* C5 (amended): the mode chosen by --pool is the mode of every pooled
\* descriptor of an evaluation, query set and gallery set alike; every
\* training step pools quality-aware (qan), whatever --pool says.
C5_PoolInEvaluationOnly ==
  /\ \A i \in DOMAIN trained : trained[i].pool = "qan"
  /\ \A i \in DOMAIN evals :
       evals[i].query_pool = args.pool /\ evals[i].gallery_pool = args.pool

C5_Witness ==
  /\ args.pool = "avg"
  /\ trained # <<>>
  /\ trained[1].pool = "qan"
  /\ evals # <<>>
  /\ evals[1].query_pool = "avg"
  /\ evals[1].gallery_pool = "avg"

\* C6 (as claimed): the rank-1 stored in every checkpoint written is the
\* highest rank-1 of all evaluations up to and including the one that
\* triggered the save.
C6_CheckpointRecordsBest ==
  ~args.evaluate =>
    \A i \in DOMAIN saved : saved[i].state.rank1 = MaxOf(RanksUpTo(i))

\* C6 (amended): the rank-1 stored in every checkpoint written is the rank-1
\* of the evaluation that triggered the save; it is at most the best rank-1
\* so far and equals it whenever the checkpoint is flagged best.
C6_CheckpointRecordsOwnRank ==
  ~args.evaluate =>
    \A i \in DOMAIN saved :
      /\ saved[i].state.rank1 = evals[i].rank1
      /\ saved[i].state.epoch = evals[i].epoch
      /\ saved[i].state.rank1 <= MaxOf(RanksUpTo(i))
      /\ saved[i].is_best => saved[i].state.rank1 = MaxOf(RanksUpTo(i))

C6_Witness ==
  /\ Len(saved) = 2
  /\ evals[1].rank1 = 2
  /\ evals[2].rank1 = 1
  /\ saved[2].state.rank1 = 1
  /\ best_rank1 = 2

\* C7 (as claimed): with stepsize > 0 the rate of every group while training
\* epoch index e is the initial rate times gamma^floor(e / stepsize), also
\* when the run starts at start_epoch > 0; with stepsize <= 0 the rate never
\* changes.
C7_StepDecayByEpochIndex ==
  \A i \in DOMAIN trained : \A g \in Groups :
    trained[i].lr[g].exp =
      IF args.stepsize > 0 THEN trained[i].epoch \div args.stepsize ELSE 0

\* C8 (as claimed): the unsupported-optimizer error is raised before the
\* dataset is initialised, before any data loader is constructed and before
\* the model is built or a checkpoint is read.
C8_KeyErrorBeforeAnyLoading ==
  pc = "KeyError" =>
    built \cap {"dataset", "trainloader", "queryloader", "galleryloader",
                "model", "checkpoint"} = {}

\* C9 (as claimed): without a GPU the run trains or evaluates on the CPU only
\* if --use-cpu was given; otherwise it ends with a fatal error.
C9_CpuOnlyIfConfigured ==
  (~cuda_available /\ ~args.use_cpu) => (trained = <<>> /\ evals = <<>>)

\* C9 (amended): the run uses the GPU exactly when one is available and
\* --use-cpu was not given, and the CPU otherwise; without a GPU it proceeds
\* on the CPU whether or not --use-cpu was given, and no device error ends
\* it (the only start-up error is the unsupported optimizer).
C9_DeviceSelection ==
  LET gpu == cuda_available /\ ~args.use_cpu IN
    /\ pc # "start" => use_gpu = gpu
    /\ \A i \in DOMAIN trained : trained[i].device = IF gpu THEN "cuda" ELSE "cpu"
    /\ \A i \in DOMAIN evals : evals[i].device = IF gpu THEN "cuda" ELSE "cpu"
    /\ pc \in {"start", "dataset", "loaders", "model", "optim", "resume",
               "evaluate", "training", "KeyError"} \cup LoopPcs
    /\ pc = "KeyError" => args.optim \notin {"adam", "sgd", "rmsprop"}

C9_Witness ==
  /\ ~cuda_available
  /\ ~args.use_cpu
  /\ pc = "done"
  /\ trained # <<>>
  /\ trained[1].device = "cpu"
  /\ evals # <<>>
  /\ evals[1].device = "cpu"

\* C10 (as claimed): in every optimizer step the rate of the feature head and
\* of the quality head is 10 times the rate of the backbone, before and
\* after every decay, for adam, sgd and rmsprop.
C10_HeadsTenTimesBackbone ==
  \A i \in DOMAIN trained : \A g \in {"feature_model", "quality_model"} :
    /\ trained[i].lr[g].coef = 10 * trained[i].lr["base_model"].coef
    /\ trained[i].lr[g].exp = trained[i].lr["base_model"].exp

\* the flat frame indices of tracklet t (1-based) in a batch of S-frame tracklets
FramesOf(t, S) == {(t - 1) * S + k : k \in 1..S}

RECURSIVE SetSumExp(_, _)
SetSumExp(I, q) ==
  IF I = {} THEN 0
  ELSE LET i == CHOOSE j \in I : TRUE IN Exp(q[i]) + SetSumExp(I \ {i}, q)

RECURSIVE SetSumFrac(_, _)
SetSumFrac(I, w) ==
  IF I = {} THEN <<0, 1>>
  ELSE LET i == CHOOSE j \in I : TRUE IN FAdd(w[i], SetSumFrac(I \ {i}, w))

\* C4: quality-aware pooling is a convex combination: for every tracklet t of
\* a batch the weights are normalised over exactly the S frames of t, are
\* non-negative and sum to 1, the normaliser is 1, and the pooled descriptor
\* lies between the minimum and the maximum of the tracklet's frame features;
\* in the training step and in the evaluation of query and gallery.
C4_QanConvexCombination ==
  (pooled.site \in {"train", "query", "gallery"} /\ pooled.pool = "qan") =>
    /\ Len(pooled.weights) = batch.b * batch.seq_len
    /\ Len(pooled.features) = batch.b
    /\ Len(pooled.normaliser) = batch.b
    /\ \A t \in 1..batch.b :
         LET I == FramesOf(t, batch.seq_len)
             Z == SetSumExp(I, batch.scores)
             lo == MinOf({batch.features[i] : i \in I})
             hi == MaxOf({batch.features[i] : i \in I})
         IN /\ \A i \in I :
                 /\ pooled.weights[i][2] > 0
                 /\ pooled.weights[i][1] >= 0
                 /\ FEq(pooled.weights[i], <<Exp(batch.scores[i]), Z>>)
            /\ FEq(SetSumFrac(I, pooled.weights), <<1, 1>>)
            /\ pooled.normaliser[t][2] > 0
            /\ FEq(pooled.normaliser[t], <<1, 1>>)
            /\ pooled.features[t][2] > 0
            /\ FLe(<<lo, 1>>, pooled.features[t])
            /\ FLe(pooled.features[t], <<hi, 1>>)

C4_Witness ==
  /\ pooled.site = "gallery"
  /\ pooled.pool = "qan"
  /\ batch.b = 2
  /\ batch.seq_len = 2
  /\ batch.scores = <<0, 1, 1, 0>>
  /\ batch.features = <<0, 1, 0, 1>>
  /\ FEq(pooled.features[1], <<2, 3>>)
  /\ FEq(pooled.features[2], <<1, 3>>)

====
